---------------------------- MODULE Spec2Model ----------------------------
(***************************************************************************)
(* A model of django-gtf's template-fallback middleware                    *)
(* (src/gtf/middleware.py) and of its REST dispatch wrapper                *)
(* (src/views/rest.py).                                                    *)
(*                                                                         *)
(* Template names and URL paths are sequences of one-character strings,    *)
(* so that strip / lstrip / endswith are computed character by character   *)
(* as Python computes them.  JSON bodies of the REST wrapper are TLA+      *)
(* strings.                                                                *)
(***************************************************************************)
EXTENDS Integers, Sequences, FiniteSets, TLC

VARIABLES
    APPEND_SLASH,   \* settings.APPEND_SLASH
    pc,             \* position of the request in the middleware pipeline
    request,        \* [path, has_urlconf, view_found]
    response,       \* the response handed to process_response
    path,           \* local `path` of generic_template_finder_view
    idx,            \* index in `possibilities` of the next candidate to try
    attempts,       \* every call render(request, t, ...) made, with its outcome
    urlconf,        \* the ambient URL-reversal configuration (set_urlconf)
    urlconfCalls,   \* arguments of the set_urlconf calls of this process_response
    returned,       \* what process_response returned
    raised,         \* the exception that left process_response, or "None"
    rpc,            \* position of RestView.dispatch
    view,           \* the RestView subclass instance: [auth_overridden, defines, head_aliased]
    method,         \* request.method, lower-cased
    calls,          \* the hooks RestView.dispatch has invoked, in order
    exc,            \* the exception raised by auth or by the handler, or NoExc
    rresponse,      \* the HttpResponse RestView.dispatch returned
    rraised         \* the exception that left RestView.dispatch, or "None"

gtfVars == <<APPEND_SLASH, pc, request, response, path, idx, attempts,
             urlconf, urlconfCalls, returned, raised>>
restVars == <<rpc, view, method, calls, exc, rresponse, rraised>>
vars == <<gtfVars, restVars>>

---------------------------------------------------------------------------
(* Bounds *)

\* A request path is "/" followed by at most MaxPieces pieces.
MaxPieces == 2

---------------------------------------------------------------------------
(* Character strings *)

SLASH == <<"/">>
FOO == <<"f", "o", "o">>
DOT_HTML == <<".", "h", "t", "m", "l">>
INDEX_HTML == <<"i", "n", "d", "e", "x">> \o DOT_HTML

Pieces == {SLASH, FOO, DOT_HTML}

RECURSIVE Concat(_)
Concat(ss) == IF ss = <<>> THEN <<>> ELSE Head(ss) \o Concat(Tail(ss))

\* request.path always begins with "/".
Paths == {SLASH \o Concat(ps) : ps \in UNION {[1..n -> Pieces] : n \in 0..MaxPieces}}

\* str.endswith
EndsWith(s, suffix) ==
    /\ Len(suffix) <= Len(s)
    /\ SubSeq(s, Len(s) - Len(suffix) + 1, Len(s)) = suffix

\* str.lstrip('/')
RECURSIVE LStrip(_)
LStrip(s) == IF s # <<>> /\ Head(s) = "/" THEN LStrip(Tail(s)) ELSE s

\* str.rstrip('/')
RECURSIVE RStrip(_)
RStrip(s) ==
    IF s # <<>> /\ s[Len(s)] = "/" THEN RStrip(SubSeq(s, 1, Len(s) - 1)) ELSE s

\* str.strip('/')
Strip(s) == LStrip(RStrip(s))

---------------------------------------------------------------------------
(* generic_template_finder_view *)

\* path = base_path + request.path; if not path.endswith('/'): path += '/'
ViewPath(base_path, request_path) ==
    LET p == base_path \o request_path
    IN  IF EndsWith(p, SLASH) THEN p ELSE p \o SLASH

\* variant: the index.html candidate first
PossibilitiesSwapped(p) ==
    << LStrip(p) \o INDEX_HTML, Strip(p) \o DOT_HTML, Strip(p) >>

\* the tuple `possibilities`, from the local `path`
Possibilities(p) ==
    << Strip(p) \o DOT_HTML, LStrip(p) \o INDEX_HTML, Strip(p) >>

\* What render(request, t, extra_context) can do: return a response, or raise
\* TemplateDoesNotExist, OSError(EISDIR), OSError with another errno,
\* UnicodeEncodeError, or Http404 (raised while the template renders).
RenderOutcomes ==
    {"ok", "TemplateDoesNotExist", "EISDIR", "EACCES", "UnicodeEncodeError", "Http404"}

\* variant: without the EISDIR clause
SkippedOnlyTemplateDoesNotExist(outcome) == outcome = "TemplateDoesNotExist"

\* the two except clauses of the loop that `continue`
Skipped(outcome) == outcome \in {"TemplateDoesNotExist", "EISDIR"}

\* the exception that leaves the loop body for a render outcome that is neither
\* a response nor skipped
Escapes(outcome) ==
    CASE outcome \in {"EACCES", "EISDIR"} -> "OSError"
      [] outcome = "UnicodeEncodeError" -> "UnicodeEncodeError"
      [] outcome = "Http404" -> "Http404"
      [] OTHER -> "None"

\* variant: settings.APPEND_SLASH not consulted
ShouldRedirectIgnoringSetting(t, p, request_path, append_slash) ==
    EndsWith(t, DOT_HTML) /\ ~EndsWith(p, request_path)

\* if t.endswith('.html') and not path.endswith(request.path) and settings.APPEND_SLASH
ShouldRedirect(t, p, request_path, append_slash) ==
    EndsWith(t, DOT_HTML) /\ ~EndsWith(p, request_path) /\ append_slash

NoResponse == [kind |-> "none", status |-> 0, template |-> <<>>, location |-> <<>>]
OriginalResponse(status) ==
    [kind |-> "original", status |-> status, template |-> <<>>, location |-> <<>>]
Rendered(t) ==
    [kind |-> "rendered", status |-> 200, template |-> t, location |-> <<>>]
PermanentRedirect(p) ==
    [kind |-> "redirect", status |-> 301, template |-> <<>>, location |-> p]

\* what the view returns once candidate t has rendered
ViewReturn(t, p, request_path, append_slash) ==
    IF ShouldRedirect(t, p, request_path, append_slash)
    THEN PermanentRedirect(p)
    ELSE Rendered(t)

---------------------------------------------------------------------------
(* GenericTemplateFinderMiddleware *)

\* variant: the marker not consulted
FallbackOnAny404(status, view_found) == status = 404

\* if response.status_code == 404 and not getattr(request, '_..._view_found', False)
ShouldFallback(status, view_found) == status = 404 /\ ~view_found

\* except Http404 / except UnicodeEncodeError: return response
Caught(e) == e \in {"Http404", "UnicodeEncodeError"}

\* variant: the reset at the return statements instead of in a finally clause
ResetOnlyOnReturn(e) == IF e = "None" \/ Caught(e) THEN <<"None">> ELSE <<>>

\* finally: urlresolvers.set_urlconf(None), whatever left the try block
FinallyCalls(e) == <<"None">>

Last(s) == s[Len(s)]

Init ==
    /\ APPEND_SLASH \in BOOLEAN
    /\ pc = "idle"
    /\ request = [path |-> SLASH, has_urlconf |-> FALSE, view_found |-> FALSE]
    /\ response = NoResponse
    /\ path = <<>>
    /\ idx = 0
    /\ attempts = <<>>
    /\ urlconf = "None"
    /\ urlconfCalls = <<>>
    /\ returned = NoResponse
    /\ raised = "None"
    /\ rpc = "idle"
    /\ view = [auth_overridden |-> FALSE, defines |-> {}, head_aliased |-> FALSE]
    /\ method = "get"
    /\ calls = <<>>
    /\ exc = [cls |-> "None", msg |-> "", fielded |-> FALSE]
    /\ rresponse = [status |-> 0, body |-> "", allow |-> "", content_type |-> ""]
    /\ rraised = "None"

\* A request arrives; the marker attribute is absent on a fresh request.
NewRequest ==
    /\ pc = "idle"
    /\ \E p \in Paths, u \in BOOLEAN :
          request' = [path |-> p, has_urlconf |-> u, view_found |-> FALSE]
    /\ pc' = "routing"
    /\ UNCHANGED <<APPEND_SLASH, response, path, idx, attempts, urlconf,
                   urlconfCalls, returned, raised, restVars>>

\* process_view: called by the framework when a view was resolved for the URL.
process_view ==
    /\ pc = "routing"
    /\ request' = [request EXCEPT !.view_found = TRUE]
    /\ pc' = "dispatched"
    /\ UNCHANGED <<APPEND_SLASH, response, path, idx, attempts, urlconf,
                   urlconfCalls, returned, raised, restVars>>

\* The framework produces the response: from the dispatched view, or, with no
\* view resolved, its own (a 404 when no route matched).
Respond ==
    /\ pc \in {"routing", "dispatched"}
    /\ \E s \in {200, 404} : response' = OriginalResponse(s)
    /\ pc' = "responded"
    /\ UNCHANGED <<APPEND_SLASH, request, path, idx, attempts, urlconf,
                   urlconfCalls, returned, raised, restVars>>

\* process_response up to the first render call (or its else branch).
process_response ==
    /\ pc = "responded"
    /\ IF ShouldFallback(response.status, request.view_found)
       THEN /\ IF request.has_urlconf
               THEN /\ urlconf' = "request.urlconf"
                    /\ urlconfCalls' = Append(urlconfCalls, "request.urlconf")
               ELSE UNCHANGED <<urlconf, urlconfCalls>>
            /\ path' = ViewPath(<<>>, request.path)
            /\ idx' = 1
            /\ pc' = "render"
            /\ UNCHANGED <<returned, raised>>
       ELSE /\ returned' = response
            /\ pc' = "done"
            /\ UNCHANGED <<urlconf, urlconfCalls, path, idx, raised>>
    /\ UNCHANGED <<APPEND_SLASH, request, response, attempts, restVars>>

\* How process_response is left with exception e ("None": the view returned r).
Exit(e, r) ==
    /\ pc' = "done"
    /\ returned' = IF e = "None" THEN r ELSE IF Caught(e) THEN response ELSE NoResponse
    /\ raised' = IF e = "None" \/ Caught(e) THEN "None" ELSE e
    /\ urlconfCalls' = urlconfCalls \o FinallyCalls(e)
    /\ urlconf' = IF FinallyCalls(e) = <<>> THEN urlconf ELSE Last(FinallyCalls(e))

\* One iteration of `for t in possibilities`, through to the exit of
\* process_response when the iteration ends the loop.
RenderCandidate ==
    /\ pc = "render"
    /\ \E outcome \in RenderOutcomes :
          LET t == Possibilities(path)[idx]
          IN  /\ attempts' = Append(attempts, [template |-> t, outcome |-> outcome])
              /\ IF Skipped(outcome)
                 THEN IF idx < 3
                      THEN /\ idx' = idx + 1
                           /\ UNCHANGED <<pc, returned, raised, urlconf, urlconfCalls>>
                      ELSE \* raise Http404('Template not found in any of ...')
                           /\ Exit("Http404", NoResponse)
                           /\ UNCHANGED idx
                 ELSE /\ IF outcome = "ok"
                         THEN Exit("None", ViewReturn(t, path, request.path, APPEND_SLASH))
                         ELSE Exit(Escapes(outcome), NoResponse)
                      /\ UNCHANGED idx
    /\ UNCHANGED <<APPEND_SLASH, request, response, path, restVars>>

\* The request is over; the next one starts from a fresh request object.
Finish ==
    /\ pc = "done"
    /\ pc' = "idle"
    /\ request' = [path |-> SLASH, has_urlconf |-> FALSE, view_found |-> FALSE]
    /\ response' = NoResponse
    /\ path' = <<>>
    /\ idx' = 0
    /\ attempts' = <<>>
    /\ urlconfCalls' = <<>>
    /\ returned' = NoResponse
    /\ raised' = "None"
    /\ UNCHANGED <<APPEND_SLASH, urlconf, restVars>>

Next ==
    \/ NewRequest
    \/ process_view
    \/ Respond
    \/ process_response
    \/ RenderCandidate
    \/ Finish

Spec == Init /\ [][Next]_vars

---------------------------------------------------------------------------
(* views/rest.py: JsonResponseMixin and RestView *)

\* The longest exception message is MaxMsgLen characters.
MaxMsgLen == 1

RECURSIVE Xs(_)
Xs(n) == IF n = 0 THEN "" ELSE "x" \o Xs(n - 1)
Msgs == {Xs(n) : n \in 0..MaxMsgLen}

\* Python values handed to render_to_response
PyNone == [t |-> "None", v |-> ""]
PyStr(s) == [t |-> "str", v |-> s]
PyDict(json) == [t |-> "dict", v |-> json]
PyEmptyList == [t |-> "list", v |-> ""]

\* try: obj = obj.to_json() / except AttributeError: pass
\* (None, str and dict have no to_json attribute)
ToJsonStep(obj) == obj

\* try: obj = [i.to_json() for i in obj] / except (AttributeError, TypeError): pass
\* Iterating None raises TypeError; the first character of a non-empty str and
\* the first key of a non-empty dict raise AttributeError; an empty str has
\* nothing to iterate, so the comprehension succeeds with [].
ListStep(obj) ==
    IF obj.t = "str" /\ obj.v = "" THEN PyEmptyList ELSE obj

\* json.dumps(obj, default=more_json)
JsonDumps(obj) ==
    CASE obj.t = "None" -> "null"
      [] obj.t = "str" -> "\"" \o obj.v \o "\""
      [] obj.t = "list" -> "[]"
      [] obj.t = "dict" -> obj.v

\* JsonResponseMixin.serialize
Serialize(obj) == JsonDumps(ListStep(ToJsonStep(obj)))

NoRResponse == [status |-> 0, body |-> "", allow |-> "", content_type |-> ""]

\* JsonResponseMixin.render_to_response
render_to_response(obj, status) ==
    [status |-> status, body |-> Serialize(obj), allow |-> "",
     content_type |-> "application/json"]

\* View.http_method_names of the framework, which RestView.options iterates
http_method_names ==
    <<"get", "post", "put", "patch", "delete", "head", "options", "trace">>

RequestMethods == {http_method_names[i] : i \in DOMAIN http_method_names} \cup {"brew"}

\* str.upper
Upper(m) ==
    CASE m = "get" -> "GET"
      [] m = "post" -> "POST"
      [] m = "put" -> "PUT"
      [] m = "patch" -> "PATCH"
      [] m = "delete" -> "DELETE"
      [] m = "head" -> "HEAD"
      [] m = "options" -> "OPTIONS"
      [] m = "trace" -> "TRACE"

\* The view instances: a RestView subclass that overrides auth or not and
\* defines some handlers; the framework's as_view may have aliased head to get.
Views ==
    [auth_overridden : BOOLEAN, defines : SUBSET {"get", "post", "put"},
     head_aliased : BOOLEAN]

\* hasattr(self, method): a handler the subclass defines, RestView's own
\* `options`, or `head` when the framework aliased it to `get`
HasAttr(v, m) ==
    \/ m \in v.defines
    \/ m = "options"
    \/ m = "head" /\ v.head_aliased /\ "get" \in v.defines

\* variant: ', '.join(allow)
RECURSIVE AllowHeaderSpaced(_, _, _)
AllowHeaderSpaced(v, i, acc) ==
    IF i > Len(http_method_names) THEN acc
    ELSE LET m == http_method_names[i]
         IN  IF HasAttr(v, m)
             THEN AllowHeaderSpaced(v, i + 1,
                                    IF acc = "" THEN Upper(m) ELSE acc \o ", " \o Upper(m))
             ELSE AllowHeaderSpaced(v, i + 1, acc)

\* the loop of RestView.options followed by ','.join(allow)
RECURSIVE AllowHeader(_, _, _)
AllowHeader(v, i, acc) ==
    IF i > Len(http_method_names) THEN acc
    ELSE LET m == http_method_names[i]
         IN  IF HasAttr(v, m)
             THEN AllowHeader(v, i + 1,
                              IF acc = "" THEN Upper(m) ELSE acc \o "," \o Upper(m))
             ELSE AllowHeader(v, i + 1, acc)

\* RestView.options
options(v) == [render_to_response(PyNone, 200) EXCEPT !.allow = AllowHeader(v, 1, "")]

\* JsonResponseMixin.http_method_not_allowed
http_method_not_allowed(v) ==
    [status |-> 405, body |-> "", allow |-> AllowHeader(v, 1, ""),
     content_type |-> "application/json"]

\* Exceptions auth or a handler may raise.  `fielded` tells whether a
\* ValidationError was built from a dict of field errors: only then does it
\* have a message_dict.
NoExc == [cls |-> "None", msg |-> "", fielded |-> FALSE]
ExcClasses ==
    {"ValidationError", "Http404", "PermissionDenied", "ValueError", "UnicodeError",
     "NotImplementedError", "KeyError"}
Exceptions ==
    {e \in [cls : ExcClasses, msg : Msgs, fielded : BOOLEAN] :
        e.fielded => e.cls = "ValidationError"}

\* isinstance(e, cls): UnicodeError is a subclass of ValueError
IsInstance(e, cls) ==
    \/ e.cls = cls
    \/ cls = "ValueError" /\ e.cls = "UnicodeError"

\* variant: a final `except Exception` in place of `except ValueError`
CatchesAnything(e) ==
    CASE IsInstance(e, "ValidationError") -> "ValidationError"
      [] IsInstance(e, "Http404") -> "Http404"
      [] IsInstance(e, "PermissionDenied") -> "PermissionDenied"
      [] OTHER -> "ValueError"

\* the except clause of RestView.dispatch that catches e, in source order
Catches(e) ==
    CASE IsInstance(e, "ValidationError") -> "ValidationError"
      [] IsInstance(e, "Http404") -> "Http404"
      [] IsInstance(e, "PermissionDenied") -> "PermissionDenied"
      [] IsInstance(e, "ValueError") -> "ValueError"
      [] OTHER -> "None"

\* e.message_dict of a ValidationError built from field errors
message_dict(e) == PyDict("{\"field\": [\"" \o e.msg \o "\"]}")

\* How RestView.dispatch is left when auth or the handler raised e:
\* [response, raised].
Handle(e) ==
    CASE Catches(e) = "ValidationError" ->
             IF e.fielded
             THEN [response |-> render_to_response(message_dict(e), 409), raised |-> "None"]
             ELSE \* e.message_dict raises AttributeError inside the except clause
                  [response |-> NoRResponse, raised |-> "AttributeError"]
      [] Catches(e) = "Http404" ->
             [response |-> render_to_response(PyNone, 404), raised |-> "None"]
      [] Catches(e) = "PermissionDenied" ->
             [response |-> render_to_response(PyStr(e.msg), 403), raised |-> "None"]
      [] Catches(e) = "ValueError" ->
             [response |-> render_to_response(PyStr(e.msg), 400), raised |-> "None"]
      [] OTHER -> [response |-> NoRResponse, raised |-> e.cls]

\* RestView.auth as inherited: raise NotImplementedError(...)
DefaultAuthError == [cls |-> "NotImplementedError", msg |-> "x", fielded |-> FALSE]

\* A request reaches RestView.dispatch of some view instance.
RestRequest ==
    /\ rpc = "idle"
    /\ view' \in Views
    /\ method' \in RequestMethods
    /\ rpc' = "auth"
    /\ UNCHANGED <<calls, exc, rresponse, rraised, gtfVars>>

Leave(e) ==
    /\ exc' = e
    /\ rresponse' = Handle(e).response
    /\ rraised' = Handle(e).raised
    /\ rpc' = "done"

\* self.auth(*args, **kwargs), and the except clauses when it raises
auth ==
    /\ rpc = "auth"
    /\ \E e \in IF view.auth_overridden THEN Exceptions \cup {NoExc}
                ELSE {DefaultAuthError} :
          /\ calls' = Append(calls, [hook |-> "auth", raised |-> e.cls])
          /\ IF e = NoExc
             THEN /\ rpc' = "handler"
                  /\ UNCHANGED <<exc, rresponse, rraised>>
             ELSE Leave(e)
    /\ UNCHANGED <<view, method, gtfVars>>

\* return super(RestView, self).dispatch(*args, **kwargs), and the except
\* clauses when the handler raises
dispatch ==
    /\ rpc = "handler"
    /\ IF method \in {http_method_names[i] : i \in DOMAIN http_method_names}
          /\ HasAttr(view, method)
       THEN IF method = "options"
            THEN /\ calls' = Append(calls, [hook |-> "handler", raised |-> "None"])
                 /\ rresponse' = options(view)
                 /\ rpc' = "done"
                 /\ UNCHANGED <<exc, rraised>>
            ELSE \E e \in Exceptions \cup {NoExc} :
                    /\ calls' = Append(calls, [hook |-> "handler", raised |-> e.cls])
                    /\ IF e = NoExc
                       THEN /\ rresponse' = render_to_response(PyStr("x"), 200)
                            /\ rpc' = "done"
                            /\ UNCHANGED <<exc, rraised>>
                       ELSE Leave(e)
       ELSE /\ calls' = Append(calls, [hook |-> "http_method_not_allowed",
                                       raised |-> "None"])
            /\ rresponse' = http_method_not_allowed(view)
            /\ rpc' = "done"
            /\ UNCHANGED <<exc, rraised>>
    /\ UNCHANGED <<view, method, gtfVars>>

\* The request is over.
RestFinish ==
    /\ rpc = "done"
    /\ rpc' = "idle"
    /\ view' = [auth_overridden |-> FALSE, defines |-> {}, head_aliased |-> FALSE]
    /\ method' = "get"
    /\ calls' = <<>>
    /\ exc' = NoExc
    /\ rresponse' = NoRResponse
    /\ rraised' = "None"
    /\ UNCHANGED gtfVars

RestNext ==
    \/ RestRequest
    \/ auth
    \/ dispatch
    \/ RestFinish

RestSpec == Init /\ [][RestNext]_vars

---------------------------------------------------------------------------
(* Claims about the template-fallback responder *)

Failed(i) == attempts[i].outcome # "ok"
NoTrailingSlash(p) == p[Len(p)] # "/"

\* The candidate list as the specification words it, from the request path P:
\* P without leading/trailing "/" plus ".html"; P without leading "/" and with
\* a trailing "/" (nothing at all when nothing but "/" is left) plus
\* "index.html"; P without leading/trailing "/".
SpecCandidates(P) ==
    LET bare == Strip(P)
        dir == IF bare = <<>> THEN <<>>
               ELSE IF NoTrailingSlash(P) THEN LStrip(P) \o SLASH ELSE LStrip(P)
    IN  << bare \o DOT_HTML, dir \o INDEX_HTML, bare >>

FOO_LIST == << FOO \o DOT_HTML, FOO \o SLASH \o INDEX_HTML, FOO >>

\* C1: the candidates are attempted strictly in the order (stripped path +
\* ".html", left-stripped path with trailing slash + "index.html", stripped
\* path); candidate i is attempted only after candidates 1..i-1 all failed to
\* render, so nothing is attempted after a candidate rendered; for "/foo" the
\* candidates are foo.html, foo/index.html, foo in that order.
C1_CandidatesInOrder ==
    /\ Len(attempts) <= 3
    /\ \A i \in 1..Len(attempts) :
          /\ attempts[i].template = SpecCandidates(request.path)[i]
          /\ \A j \in 1..(i - 1) : Failed(j)
          /\ request.path = SLASH \o FOO => attempts[i].template = FOO_LIST[i]
    /\ pc = "render" => idx = Len(attempts) + 1 /\ \A j \in 1..Len(attempts) : Failed(j)

C1_Witness ==
    /\ pc = "done"
    /\ request.path = SLASH \o FOO
    /\ Len(attempts) = 3
    /\ attempts[3].outcome = "ok"

\* C2: for request path "/" the only template passed to the renderer is
\* "index.html".
C2_OnlyIndexHtml ==
    request.path = SLASH =>
        \A i \in 1..Len(attempts) : attempts[i].template = INDEX_HTML

SomeCandidateRendered ==
    pc = "done" /\ attempts # <<>> /\ Last(attempts).outcome = "ok"

RedirectsToSlashAppended ==
    returned = PermanentRedirect(request.path \o SLASH)

\* C3 as stated: a permanent redirect to the slash-appended path replaces the
\* rendered response exactly when the FIRST candidate rendered, the request
\* path has no trailing "/" and APPEND_SLASH is on; otherwise the rendered
\* response is returned.
C3_RedirectOnlyForFirstCandidate ==
    SomeCandidateRendered =>
        IF Len(attempts) = 1 /\ NoTrailingSlash(request.path) /\ APPEND_SLASH
        THEN RedirectsToSlashAppended
        ELSE returned = Rendered(Last(attempts).template)

\* C3 amended: a permanent redirect to the slash-appended path replaces the
\* rendered response exactly when the name of the candidate that rendered ends
\* in ".html" (always so for the first and for the "index.html" candidate, and
\* for the unsuffixed one when the stripped path itself ends in ".html"), the
\* request path has no trailing "/" and APPEND_SLASH is on; otherwise the
\* rendered response is returned.  "foo.html" rendering for "/foo" with the
\* flag on gives a permanent redirect to "/foo/".
C3_RedirectForHtmlCandidate ==
    /\ SomeCandidateRendered =>
          IF /\ Len(attempts) <= 2 \/ EndsWith(Strip(request.path), DOT_HTML)
             /\ NoTrailingSlash(request.path)
             /\ APPEND_SLASH
          THEN RedirectsToSlashAppended
          ELSE returned = Rendered(Last(attempts).template)
    /\ SomeCandidateRendered /\ request.path = SLASH \o FOO /\ Len(attempts) = 1
          /\ APPEND_SLASH
          => returned = PermanentRedirect(SLASH \o FOO \o SLASH)

\* the "index.html" candidate rendered for a path without trailing slash and
\* the request was redirected
C3_Witness ==
    /\ SomeCandidateRendered
    /\ Len(attempts) = 2
    /\ request.path = SLASH \o FOO
    /\ returned = PermanentRedirect(SLASH \o FOO \o SLASH)

\* C4: when process_view ran before process_response, process_response returns
\* the response it was given, renders nothing and raises nothing, also for a
\* 404; templates are rendered only for a 404 response of a request on which
\* process_view never ran.
C4_ViewFoundReturnedUnmodified ==
    /\ request.view_found => attempts = <<>> /\ urlconfCalls = <<>> /\ pc # "render"
    /\ pc = "done" /\ request.view_found => returned = response /\ raised = "None"
    /\ pc = "render" \/ attempts # <<>> =>
          response.status = 404 /\ ~request.view_found

C4_Witness ==
    /\ pc = "done"
    /\ request.view_found
    /\ response.status = 404
    /\ returned = response

\* C9: once process_response has set the URL-reversal configuration to the
\* request's urlconf it is None again when process_response is left, however
\* it is left; on the path without fallback set_urlconf is not called at all.
C9_UrlconfResetOnEveryExit ==
    /\ pc = "render" /\ request.has_urlconf => urlconf = "request.urlconf"
    /\ pc = "done" =>
          IF response.status = 404 /\ ~request.view_found
          THEN /\ urlconf = "None"
               /\ urlconfCalls # <<>> /\ Last(urlconfCalls) = "None"
               /\ request.has_urlconf => urlconfCalls = <<"request.urlconf", "None">>
          ELSE urlconfCalls = <<>>

\* an OS error other than EISDIR propagated after the urlconf had been set
C9_Witness ==
    /\ pc = "done"
    /\ request.has_urlconf
    /\ raised = "OSError"
    /\ urlconfCalls = <<"request.urlconf", "None">>
    /\ urlconf = "None"

\* C10: the fallback never lets Http404 or UnicodeEncodeError out of
\* process_response; when every candidate fails with TemplateDoesNotExist or
\* EISDIR all three are attempted and the original response is returned; a
\* UnicodeEncodeError returns the original response; an OSError with another
\* errno ends the loop at once and propagates.
C10_FallbackErrors ==
    /\ raised \notin {"Http404", "UnicodeEncodeError"}
    /\ pc = "done" /\ attempts # <<>> =>
          /\ (\A i \in 1..Len(attempts) :
                 attempts[i].outcome \in {"TemplateDoesNotExist", "EISDIR"})
                => Len(attempts) = 3 /\ returned = response /\ raised = "None"
          /\ Last(attempts).outcome = "UnicodeEncodeError"
                => returned = response /\ raised = "None"
    /\ pc \in {"render", "done"} =>
          \A i \in 1..Len(attempts) :
              attempts[i].outcome = "EACCES" =>
                  /\ i = Len(attempts)
                  /\ pc = "done"
                  /\ raised = "OSError"
                  /\ returned = NoResponse

\* the three candidates failed with a mix of the two skipped errors
C10_Witness ==
    /\ pc = "done"
    /\ Len(attempts) = 3
    /\ attempts[1].outcome = "EISDIR"
    /\ attempts[2].outcome = "TemplateDoesNotExist"
    /\ attempts[3].outcome = "EISDIR"
    /\ returned = response
    /\ response.status = 404

---------------------------------------------------------------------------
(* Claims about the REST dispatch wrapper *)

Raised == rpc = "done" /\ exc # NoExc

\* C5: an exception raised by auth or by the handler becomes a response with
\* a fixed status - ValidationError 409, Http404 404, PermissionDenied 403,
\* ValueError 400 - and an exception of any other kind leaves dispatch
\* unchanged, without a response.
C5_ExceptionsMapped ==
    Raised =>
        CASE IsInstance(exc, "ValidationError") ->
                 rraised = "None" /\ rresponse.status = 409
          [] IsInstance(exc, "Http404") ->
                 rraised = "None" /\ rresponse.status = 404
          [] IsInstance(exc, "PermissionDenied") ->
                 rraised = "None" /\ rresponse.status = 403
          [] IsInstance(exc, "ValueError") ->
                 rraised = "None" /\ rresponse.status = 400
          [] OTHER -> rraised = exc.cls /\ rresponse = NoRResponse

\* C6: a not-found condition gives status 404 with an empty body; a bad-value
\* condition gives status 400 with the JSON serialization of the error's
\* string form as body.
C6_NotFoundAndBadValueBodies ==
    /\ Raised /\ exc.cls = "Http404" =>
          rresponse.status = 404 /\ rresponse.body = ""
    /\ Raised /\ exc.cls = "ValueError" =>
          rresponse.status = 400 /\ rresponse.body = "\"" \o exc.msg \o "\""

OptionsAnswered ==
    /\ rpc = "done"
    /\ method = "options"
    /\ Len(calls) = 2
    /\ calls[2].hook = "handler"

RECURSIVE CommaJoin(_)
CommaJoin(names) ==
    IF names = <<>> THEN ""
    ELSE IF Len(names) = 1 THEN Head(names)
    ELSE Head(names) \o "," \o CommaJoin(Tail(names))

UpperNames == [i \in DOMAIN http_method_names |-> Upper(http_method_names[i])]

\* C7 as stated: the Allow header lists, upper-cased, comma-joined and in
\* http_method_names order, the handlers the view implements, the body is
\* empty, and a subclass implementing only GET and POST answers "GET,POST".
C7_AllowListsImplemented ==
    OptionsAnswered =>
        /\ LET Implemented(name) ==
                   \E i \in DOMAIN http_method_names :
                       name = UpperNames[i] /\ http_method_names[i] \in view.defines
           IN  rresponse.allow = CommaJoin(SelectSeq(UpperNames, Implemented))
        /\ rresponse.body = ""
        /\ view.defines = {"get", "post"} => rresponse.allow = "GET,POST"

\* C7 amended: the Allow header lists, upper-cased, comma-joined and in
\* http_method_names order, the method names the instance has an attribute
\* for: the handlers the subclass defines, OPTIONS (RestView defines it
\* itself), and HEAD when the framework aliased head to get.  The body is the
\* JSON serialization of None, "null".  A subclass defining only get and post
\* answers "GET,POST,OPTIONS" ("GET,POST,HEAD,OPTIONS" with head aliased).
C7_AllowListsAttributes ==
    OptionsAnswered =>
        /\ LET Present(name) ==
                   \/ \E i \in DOMAIN http_method_names :
                         name = UpperNames[i] /\ http_method_names[i] \in view.defines
                   \/ name = "OPTIONS"
                   \/ name = "HEAD" /\ view.head_aliased /\ "get" \in view.defines
           IN  rresponse.allow = CommaJoin(SelectSeq(UpperNames, Present))
        /\ rresponse.body = "null"
        /\ rresponse.status = 200
        /\ rraised = "None"
        /\ view.defines = {"get", "post"} =>
              rresponse.allow = IF view.head_aliased THEN "GET,POST,HEAD,OPTIONS"
                                ELSE "GET,POST,OPTIONS"

C7_Witness ==
    /\ OptionsAnswered
    /\ view.defines = {"get", "post"}
    /\ ~view.head_aliased
    /\ rresponse.allow = "GET,POST,OPTIONS"

\* C8: auth is invoked before the handler, the handler is never invoked when
\* auth raised, and with the inherited auth hook dispatch is left by
\* NotImplementedError, without a response and without any handler running.
C8_AuthBeforeHandler ==
    /\ calls # <<>> => calls[1].hook = "auth"
    /\ \A i \in 1..Len(calls) :
          calls[i].hook # "auth" => i = 2 /\ calls[1].raised = "None"
    /\ rpc = "handler" => calls = <<[hook |-> "auth", raised |-> "None"]>>
    /\ rpc = "done" /\ ~view.auth_overridden =>
          /\ rraised = "NotImplementedError"
          /\ rresponse = NoRResponse
          /\ calls = <<[hook |-> "auth", raised |-> "NotImplementedError"]>>

C8_Witness ==
    /\ rpc = "done"
    /\ ~view.auth_overridden
    /\ rraised = "NotImplementedError"
    /\ Len(calls) = 1

=============================================================================
